---- MODULE Spec2Model ----
(***************************************************************************)
(* A model of crypto_journal.py, a Streamlit single-page journal.          *)
(*                                                                         *)
(* The state is st.session_state (log_entries, custom_fields, field_order, *)
(* field_toggles, theme_settings, show_settings) plus the values that the  *)
(* keyed widgets toggle_<key> and edit_result_<i> and the file uploader of *)
(* the settings panel hold between script runs.                            *)
(* One action is one script run of main() triggered by one user event: the *)
(* script is executed from its first line up to the event's handler, and   *)
(* to its end when the handler does not call st.rerun().  A handler that   *)
(* calls st.rerun() ends the run there; the run it requests is the action  *)
(* Rerun, the only action enabled while rerun_requested holds.             *)
(*                                                                         *)
(* Field keys and the texts the code transforms (labels, coin symbols) are *)
(* sequences of one-character strings, so that lower(), replace() and      *)
(* strip() are computed character by character.                            *)
(***************************************************************************)
EXTENDS Integers, Sequences, FiniteSets, TLC

VARIABLES log_entries, custom_fields, field_order, field_toggles,
          theme_settings, show_settings, toggle_widget, edit_widget,
          uploader_widget, rerun_requested, last_event

vars == <<log_entries, custom_fields, field_order, field_toggles,
          theme_settings, show_settings, toggle_widget, edit_widget,
          uploader_widget, rerun_requested, last_event>>

---------------------------------------------------------------------------
(* Bounds of the model *)

\* SpecEntries: nothing is submitted once log_entries holds MaxEntries entries
MaxEntries == 3

\* Spec: nothing is submitted once log_entries holds MaxStored entries
MaxStored == 1

\* datetime.now() readings are drawn from 1..MaxTime
MaxTime == 1

\* the reorder buttons of the built-in list are pressed in its first MaxRow rows only
MaxRow == 1

\* SpecLog: nothing is submitted once log_entries holds MaxListed entries
MaxListed == 3

\* SpecLog: datetime.now() readings are drawn from 1..MaxClock
MaxClock == 2

---------------------------------------------------------------------------
(* Sequences, dictionaries and texts *)

Range(s) == {s[i] : i \in 1..Len(s)}

\* list.index: the position of the first element equal to x
IndexOf(s, x) == CHOOSE i \in 1..Len(s) : s[i] = x /\ \A j \in 1..(i - 1) : s[j] # x

\* list.pop(i)
RemoveAt(s, i) == [j \in 1..(Len(s) - 1) |-> IF j < i THEN s[j] ELSE s[j + 1]]

\* a, b = b, a on two positions of a list
Swap(s, i, j) == [s EXCEPT ![i] = s[j], ![j] = s[i]]

\* d[k] = v on a dict
Put(d, k, v) == [x \in (DOMAIN d) \cup {k} |-> IF x = k THEN v ELSE d[x]]

\* del d[k]
Del(d, k) == [x \in (DOMAIN d) \ {k} |-> d[x]]

\* d.get(k, default)
Get(d, k, default) == IF k \in DOMAIN d THEN d[k] ELSE default

EmptyDict == [x \in {} |-> TRUE]

UpperLetters == <<"A", "B", "C", "D", "E", "F", "G", "H", "I", "J", "K", "L", "M", "N", "O", "P", "Q", "R", "S", "T", "U", "V", "W", "X", "Y", "Z">>
LowerLetters == <<"a", "b", "c", "d", "e", "f", "g", "h", "i", "j", "k", "l", "m", "n", "o", "p", "q", "r", "s", "t", "u", "v", "w", "x", "y", "z">>

LowerChar(c) ==
    IF \E i \in 1..Len(UpperLetters) : UpperLetters[i] = c
    THEN LowerLetters[CHOOSE i \in 1..Len(UpperLetters) : UpperLetters[i] = c]
    ELSE c

\* str.lower()
Lower(s) == [i \in 1..Len(s) |-> LowerChar(s[i])]

\* str.replace(' ', '_')
ReplaceSpaces(s) == [i \in 1..Len(s) |-> IF s[i] = " " THEN "_" ELSE s[i]]

Whitespace == {" ", "\t", "\n"}

\* str.strip(): leading and trailing whitespace removed
Strip(s) ==
    IF \A i \in 1..Len(s) : s[i] \in Whitespace THEN <<>>
    ELSE LET first == CHOOSE i \in 1..Len(s) :
                          s[i] \notin Whitespace /\ \A j \in 1..(i - 1) : s[j] \in Whitespace
             last  == CHOOSE i \in 1..Len(s) :
                          s[i] \notin Whitespace /\ \A j \in (i + 1)..Len(s) : s[j] \in Whitespace
         IN  SubSeq(s, first, last)

---------------------------------------------------------------------------
(* The built-in fields *)

coin_symbol == <<"c", "o", "i", "n", "_", "s", "y", "m", "b", "o", "l">>
coin_link == <<"c", "o", "i", "n", "_", "l", "i", "n", "k">>
date_logged == <<"d", "a", "t", "e", "_", "l", "o", "g", "g", "e", "d">>
market_cap == <<"m", "a", "r", "k", "e", "t", "_", "c", "a", "p">>
trading_volume == <<"t", "r", "a", "d", "i", "n", "g", "_", "v", "o", "l", "u", "m", "e">>
trading_volume_timeframe == <<"t", "r", "a", "d", "i", "n", "g", "_", "v", "o", "l", "u", "m", "e", "_", "t", "i", "m", "e", "f", "r", "a", "m", "e">>
established_status == <<"e", "s", "t", "a", "b", "l", "i", "s", "h", "e", "d", "_", "s", "t", "a", "t", "u", "s">>
fib_levels == <<"f", "i", "b", "_", "l", "e", "v", "e", "l", "s">>
conviction_level == <<"c", "o", "n", "v", "i", "c", "t", "i", "o", "n", "_", "l", "e", "v", "e", "l">>
risk_factors == <<"r", "i", "s", "k", "_", "f", "a", "c", "t", "o", "r", "s">>
sentiment_community == <<"s", "e", "n", "t", "i", "m", "e", "n", "t", "_", "c", "o", "m", "m", "u", "n", "i", "t", "y">>
entry_strategy == <<"e", "n", "t", "r", "y", "_", "s", "t", "r", "a", "t", "e", "g", "y">>
target_exit_strategy == <<"t", "a", "r", "g", "e", "t", "_", "e", "x", "i", "t", "_", "s", "t", "r", "a", "t", "e", "g", "y">>
notes_updates == <<"n", "o", "t", "e", "s", "_", "u", "p", "d", "a", "t", "e", "s">>
trade_result == <<"t", "r", "a", "d", "e", "_", "r", "e", "s", "u", "l", "t">>
timestamp == <<"t", "i", "m", "e", "s", "t", "a", "m", "p">>

get_default_field_order ==
    [built_in |-> <<coin_symbol, coin_link, date_logged, market_cap, trading_volume,
                    trading_volume_timeframe, established_status, fib_levels,
                    conviction_level, risk_factors, sentiment_community, entry_strategy,
                    target_exit_strategy, notes_updates, trade_result>>,
     custom   |-> <<>>]

\* FIELD_CONFIGS: widget kind and the value the widget holds when the user leaves it alone
FIELD_CONFIGS ==
    [k \in Range(get_default_field_order.built_in) |->
        CASE k = date_logged              -> [type |-> "date_input",   initial |-> "today"]
          [] k = market_cap               -> [type |-> "number_input", initial |-> "None"]
          [] k = trading_volume           -> [type |-> "number_input", initial |-> "None"]
          [] k = trading_volume_timeframe -> [type |-> "selectbox",    initial |-> "5m"]
          [] k = established_status       -> [type |-> "selectbox",    initial |-> "New"]
          [] k = conviction_level         -> [type |-> "slider",       initial |-> "5"]
          [] k = trade_result             -> [type |-> "selectbox",    initial |-> "Pending"]
          [] k \in {risk_factors, entry_strategy, target_exit_strategy, notes_updates}
                                          -> [type |-> "text_area",    initial |-> ""]
          [] OTHER                        -> [type |-> "text_input",   initial |-> ""]]

BuiltInKeys == DOMAIN FIELD_CONFIGS

TradeResults == <<"Pending", "Win", "Loss">>

FIELD_TYPES == {"text_input", "number_input", "text_area", "selectbox", "slider",
                "date_input", "checkbox"}

DefaultTheme ==
    [background_color |-> "#1a1a1a", text_color |-> "#ffffff",
     accent_color |-> "#00d4aa", custom_background |-> "None"]

---------------------------------------------------------------------------
(* Field order *)

move_field_up(order_list, field_key) ==
    IF field_key \in Range(order_list)
    THEN LET current_index == IndexOf(order_list, field_key)
         IN  IF current_index > 1
             THEN Swap(order_list, current_index, current_index - 1)
             ELSE order_list
    ELSE order_list

\* mutant of move_field_down: the bound is len(order_list) - 2
move_field_down_short(order_list, field_key) ==
    IF field_key \in Range(order_list)
    THEN LET current_index == IndexOf(order_list, field_key)
         IN  IF current_index < Len(order_list) - 1
             THEN Swap(order_list, current_index, current_index + 1)
             ELSE order_list
    ELSE order_list

\* mutant of move_field_down: the key is written one place down and the key that was
\* there is not written back
move_field_down_overwriting(order_list, field_key) ==
    IF field_key \in Range(order_list)
    THEN LET current_index == IndexOf(order_list, field_key)
         IN  IF current_index < Len(order_list)
             THEN [order_list EXCEPT ![current_index + 1] = field_key]
             ELSE order_list
    ELSE order_list

move_field_down(order_list, field_key) ==
    IF field_key \in Range(order_list)
    THEN LET current_index == IndexOf(order_list, field_key)
         IN  IF current_index < Len(order_list)
             THEN Swap(order_list, current_index, current_index + 1)
             ELSE order_list
    ELSE order_list

\* mutant of add_field_to_order: the key is appended without the membership test
add_field_to_order_always(order, field_key, field_type) ==
    IF field_type = "custom"
    THEN [order EXCEPT !.custom = Append(@, field_key)]
    ELSE order

add_field_to_order(order, field_key, field_type) ==
    IF field_type = "custom" /\ field_key \notin Range(order.custom)
    THEN [order EXCEPT !.custom = Append(@, field_key)]
    ELSE order

\* mutant of remove_field_from_order: the key is looked up in the built-in list
remove_field_from_order_built_in(order, field_key, field_type) ==
    IF field_key \in Range(order.built_in)
    THEN [order EXCEPT !.built_in = RemoveAt(@, IndexOf(@, field_key))]
    ELSE order

\* list.remove: the first occurrence only
remove_field_from_order(order, field_key, field_type) ==
    IF field_key \in Range(order[field_type])
    THEN [order EXCEPT ![field_type] = RemoveAt(@, IndexOf(@, field_key))]
    ELSE order

---------------------------------------------------------------------------
(* Custom fields *)

CustomPrefix == <<"c", "u", "s", "t", "o", "m", "_">>

\* mutant of custom_field_key: the prefix is left out
custom_field_key_noprefix(name) == ReplaceSpaces(Lower(name))

\* f"custom_{name.lower().replace(' ', '_')}"
custom_field_key(name) == CustomPrefix \o ReplaceSpaces(Lower(name))

\* the config dict add_custom_field builds; help text left empty by the user
custom_field_config(name, type) ==
    LET help == <<"C", "u", "s", "t", "o", "m", " ", "f", "i", "e", "l", "d", ":", " ">> \o name
    IN  CASE type = "number_input"
               -> [label |-> name, type |-> type, help |-> help,
                   placeholder |-> <<"0">>, value |-> "0"]
          [] type = "selectbox"
               -> [label |-> name, type |-> type, help |-> help,
                   options |-> <<"Option 1", "Option 2", "Option 3">>, index |-> 0]
          [] type = "slider"
               -> [label |-> name, type |-> type, help |-> help,
                   min_value |-> 0, max_value |-> 100, value |-> "50"]
          [] type = "text_input"
               -> [label |-> name, type |-> type, help |-> help,
                   placeholder |-> <<"E", "n", "t", "e", "r", " ">> \o Lower(name)]
          [] type = "text_area"
               -> [label |-> name, type |-> type, help |-> help,
                   placeholder |-> <<"E", "n", "t", "e", "r", " ">> \o Lower(name) \o <<".", ".", ".">>]
          [] type = "date_input"
               -> [label |-> name, type |-> type, help |-> help, default |-> "today"]
          [] type = "checkbox"
               -> [label |-> name, type |-> type, help |-> help, value |-> "False"]

\* update_existing_entries_with_new_fields: every stored entry gets each registered key
\* it lacks, with the default of the field's kind.  No line of the script calls it.
update_existing_entries_with_new_fields(S) ==
    LET all_field_keys == BuiltInKeys \cup DOMAIN S.cf
        default(k) ==
            IF k \in BuiltInKeys
            THEN (IF k = coin_symbol THEN <<>>
                  ELSE IF FIELD_CONFIGS[k].type \in {"selectbox", "slider", "date_input"}
                  THEN FIELD_CONFIGS[k].initial
                  ELSE "")
            ELSE (IF S.cf[k].type = "selectbox" THEN S.cf[k].options[1]
                  ELSE IF S.cf[k].type = "slider" THEN S.cf[k].value
                  ELSE "")
    IN  [S EXCEPT !.le = [i \in 1..Len(@) |->
                             [k \in (DOMAIN @[i]) \cup all_field_keys |->
                                 IF k \in DOMAIN @[i] THEN @[i][k] ELSE default(k)]]]

\* mutant of add_custom_field: the stored entries are back-filled with the new key
add_custom_field_backfilling(S, name, type) ==
    IF name # <<>> /\ type # ""
    THEN LET field_key == custom_field_key(name)
         IN  update_existing_entries_with_new_fields(
                 [S EXCEPT !.cf = Put(@, field_key, custom_field_config(name, type)),
                           !.fo = add_field_to_order(@, field_key, "custom"),
                           !.ft = Put(@, field_key, TRUE)])
    ELSE S

\* mutant of add_custom_field: the toggle is set only when the key has none yet
add_custom_field_keep_toggle(S, name, type) ==
    IF name # <<>> /\ type # ""
    THEN LET field_key == custom_field_key(name)
         IN  [S EXCEPT !.cf = Put(@, field_key, custom_field_config(name, type)),
                       !.fo = add_field_to_order(@, field_key, "custom"),
                       !.ft = IF field_key \in DOMAIN @ THEN @ ELSE Put(@, field_key, TRUE)]
    ELSE S

\* add_custom_field on the session S with new_field_name = name, new_field_type = type
add_custom_field(S, name, type) ==
    IF name # <<>> /\ type # ""
    THEN LET field_key == custom_field_key(name)
         IN  [S EXCEPT !.cf = Put(@, field_key, custom_field_config(name, type)),
                       !.fo = add_field_to_order(@, field_key, "custom"),
                       !.ft = Put(@, field_key, TRUE)]
    ELSE S

\* mutant of delete_custom_field: the key is purged from the stored entries too
delete_custom_field_purging(S, field_key) ==
    IF field_key \in DOMAIN S.cf
    THEN [S EXCEPT !.cf = Del(@, field_key),
                   !.fo = remove_field_from_order(@, field_key, "custom"),
                   !.le = [i \in 1..Len(@) |-> Del(@[i], field_key)]]
    ELSE S

delete_custom_field(S, field_key) ==
    IF field_key \in DOMAIN S.cf
    THEN [S EXCEPT !.cf = Del(@, field_key),
                   !.fo = remove_field_from_order(@, field_key, "custom")]
    ELSE S

\* mutant of clear_all_data: the background image of the theme is kept
clear_all_data_keep_background(S) ==
    [S EXCEPT !.le = <<>>, !.cf = EmptyDict, !.fo = get_default_field_order,
              !.ft = EmptyDict,
              !.th = [DefaultTheme EXCEPT !.custom_background = S.th.custom_background]]

clear_all_data(S) ==
    [S EXCEPT !.le = <<>>, !.cf = EmptyDict, !.fo = get_default_field_order,
              !.ft = EmptyDict, !.th = DefaultTheme]

\* load_client_data: every built-in and custom key missing from field_toggles becomes True
load_client_data(S) ==
    [S EXCEPT !.ft = [k \in (DOMAIN @) \cup BuiltInKeys \cup DOMAIN S.cf |->
                          IF k \in DOMAIN @ THEN @[k] ELSE TRUE]]

\* save_client_data: the body is `pass`; nothing is written anywhere
save_client_data(S) == S

---------------------------------------------------------------------------
(* Inputs of the user *)

\* texts typed into "Field Name"
FieldNameInputs == {<<"R", "i", "s", "k", " ", "L", "e", "v", "e", "l">>, <<"r", "i", "s", "k", " ", "l", "e", "v", "e", "l">>, <<" ">>, <<>>}

\* kinds picked in "Field Type"
FieldTypeInputs == {"text_input", "selectbox"}

\* more texts typed into "Field Name" when only the field registry is exercised
MoreFieldNameInputs == {<<"C", "o", "i", "n", " ", "S", "y", "m", "b", "o", "l">>}

\* the text typed into "Field Name" when the settings panel is exercised
SettingsFieldNameInputs == {<<"R", "i", "s", "k", " ", "L", "e", "v", "e", "l">>}

\* texts typed into the coin symbol input
CoinInputs == {<<"B", "T", "C">>, <<" ">>, <<>>}

\* built-in fields whose "Enable" checkbox the user clicks
ToggleKeys == {coin_symbol, trade_result}

\* trade results picked in a table row when only the entry list is exercised
EditInputs == {"Win"}

\* one script run is triggered by one event
NoEvent == [t |-> "none"]

---------------------------------------------------------------------------
(* One script run of main()                                                *)
(*                                                                         *)
(* S is the session: le = log_entries, cf = custom_fields, fo = field_order,*)
(* ft = field_toggles, th = theme_settings, ss = show_settings, tw = values *)
(* of the toggle_<key> checkboxes, ew = values of the edit_result_<i>      *)
(* selectboxes, up = the file held by the file uploader.  A run works on S *)
(* extended with sel = selected_fields,                                    *)
(* rows = the table rows built so far, stop and note (the message shown).  *)
(* Rows are numbered from 1; row i is position i - 1 in the code.          *)
(***************************************************************************)

Session ==
    [le |-> log_entries, cf |-> custom_fields, fo |-> field_order, ft |-> field_toggles,
     th |-> theme_settings, ss |-> show_settings, tw |-> toggle_widget, ew |-> edit_widget,
     up |-> uploader_widget]

Start(S) ==
    [le |-> S.le, cf |-> S.cf, fo |-> S.fo, ft |-> S.ft, th |-> S.th, ss |-> S.ss,
     tw |-> S.tw, ew |-> S.ew, up |-> S.up, sel |-> EmptyDict, rows |-> {}, stop |-> "no",
     note |-> "none"]

\* A keyed widget called with a default that differs from the value it holds: the
\* framework returns the held value when the key alone identifies the widget (keyid),
\* and the default when the default is part of the widget's identity.
KeyedWidget(held, key, default, keyid) ==
    IF key \in DOMAIN held /\ keyid THEN held[key] ELSE default

\* st.checkbox(value=field_toggles.get(key, True), key="toggle_<key>")
Checkbox(W, key, ev, keyid) ==
    IF ev.t = "toggle" /\ ev.k = key THEN ev.b
    ELSE KeyedWidget(W.tw, key, Get(W.ft, key, TRUE), keyid)

\* mutant of RenderToggles: the fields switched off are dropped from the stored entries
RenderTogglesPurging(W, keys, ev, keyid) ==
    LET val == [k \in keys |-> Checkbox(W, k, ev, keyid)]
        upd(d) == [k \in (DOMAIN d) \cup keys |-> IF k \in keys THEN val[k] ELSE d[k]]
        off == {k \in keys : ~val[k]}
    IN  [W EXCEPT !.sel = upd(@), !.ft = upd(@), !.tw = upd(@),
                  !.le = [i \in 1..Len(@) |-> [x \in (DOMAIN @[i]) \ off |-> @[i][x]]]]

\* selected_fields[key] = st.checkbox(...); field_toggles[key] = selected_fields[key]
RenderToggles(W, keys, ev, keyid) ==
    LET val == [k \in keys |-> Checkbox(W, k, ev, keyid)]
        upd(d) == [k \in (DOMAIN d) \cup keys |-> IF k \in keys THEN val[k] ELSE d[k]]
    IN  [W EXCEPT !.sel = upd(@), !.ft = upd(@), !.tw = upd(@)]

\* lines 614-693: the settings button and, when show_settings holds, the panel: the
\* theme presets, the colour pickers (each returns the colour it is given, the user
\* picks none), the file uploader, "Remove Background" and "Clear All Data"
StageSettings(W, ev) ==
    LET ss1 == IF ev.t = "settings" THEN ~W.ss ELSE W.ss
        th1 == IF ev.t = "dark_mode"
               THEN [W.th EXCEPT !.background_color = "#1a1a1a", !.text_color = "#ffffff",
                                 !.accent_color = "#00d4aa"]
               ELSE IF ev.t = "light_mode"
               THEN [W.th EXCEPT !.background_color = "#ffffff", !.text_color = "#000000",
                                 !.accent_color = "#1f77b4"]
               ELSE W.th
        up1 == IF ev.t = "upload" THEN "image" ELSE W.up
        th2 == IF up1 # "None" THEN [th1 EXCEPT !.custom_background = up1] ELSE th1
        th3 == IF ev.t = "remove_background"
               THEN [th2 EXCEPT !.custom_background = "None"] ELSE th2
        W1 == [W EXCEPT !.ss = ss1, !.th = th3, !.up = up1]
    IN  IF ~ss1 THEN [W EXCEPT !.ss = ss1]
        ELSE IF ev.t = "clear_all_data"
        THEN [clear_all_data(W1) EXCEPT !.stop = "rerun", !.note = "all_data_cleared"]
        ELSE W1

\* lines 700-732: the reorder buttons
StageReorder(W, ev) ==
    IF ev.t = "move_up"
    THEN [W EXCEPT !.fo[ev.list] = move_field_up(@, ev.k), !.stop = "rerun"]
    ELSE IF ev.t = "move_down"
    THEN [W EXCEPT !.fo[ev.list] = move_field_down(@, ev.k), !.stop = "rerun"]
    ELSE W

\* lines 735-746: the built-in checkboxes, in field order
StageBuiltInToggles(W, ev, keyid) ==
    RenderToggles(W, Range(W.fo.built_in) \cap BuiltInKeys, ev, keyid)

\* mutant of StageAddField: the field name is tested without strip()
StageAddFieldNoStrip(W, ev) ==
    IF ev.t = "add_field"
    THEN IF ev.name # <<>>
         THEN [save_client_data(add_custom_field(W, ev.name, ev.type))
                   EXCEPT !.stop = "rerun", !.note = "added_custom_field"]
         ELSE [W EXCEPT !.note = "field_name_required"]
    ELSE W

\* lines 753-768: the "Add Field" button
StageAddField(W, ev) ==
    IF ev.t = "add_field"
    THEN IF ev.name # <<>> /\ Strip(ev.name) # <<>>
         THEN [save_client_data(add_custom_field(W, ev.name, ev.type))
                   EXCEPT !.stop = "rerun", !.note = "added_custom_field"]
         ELSE [W EXCEPT !.note = "field_name_required"]
    ELSE W

\* lines 771-799: the custom checkboxes and delete buttons, in field order; the loop
\* ends at the pressed delete button
StageCustomToggles(W, ev, keyid) ==
    IF DOMAIN W.cf = {} THEN W
    ELSE LET upto == IF ev.t = "delete_field" /\ ev.k \in Range(W.fo.custom)
                     THEN IndexOf(W.fo.custom, ev.k) ELSE Len(W.fo.custom)
             keys == {W.fo.custom[j] : j \in 1..upto} \cap DOMAIN W.cf
             W1   == RenderToggles(W, keys, ev, keyid)
         IN  IF ev.t = "delete_field" /\ ev.k \in keys
             THEN [save_client_data(delete_custom_field(W1, ev.k))
                       EXCEPT !.stop = "rerun", !.note = "deleted_custom_field"]
             ELSE W1

\* mutant of StageGuard: the run goes on when no field is selected
StageGuardPassing(W) == W

\* lines 808-810: no field selected
StageGuard(W) ==
    IF \E k \in DOMAIN W.sel : W.sel[k] THEN W ELSE [W EXCEPT !.stop = "return"]

\* the value a form widget returns for field_key
WidgetValue(W, field_key, ev) ==
    IF field_key = coin_symbol THEN ev.coin
    ELSE IF field_key = trade_result THEN ev.result
    ELSE IF field_key \in BuiltInKeys THEN FIELD_CONFIGS[field_key].initial
    ELSE ev.custom[W.cf[field_key].type]

\* lines 817-833: entry_data, the enabled fields of both order lists
EntryData(W, ev) ==
    LET keys == {k \in Range(W.fo.built_in) :
                     k \in DOMAIN W.sel /\ W.sel[k] /\ k \in BuiltInKeys}
                \cup {k \in Range(W.fo.custom) :
                     k \in DOMAIN W.sel /\ W.sel[k] /\ k \in DOMAIN W.cf}
    IN  [k \in keys |-> WidgetValue(W, k, ev)]

\* mutant of ValidEntry: the coin symbol is not required
ValidEntryUnchecked(entry_data) == TRUE

\* mutant of ValidEntry: the value is tested without strip()
ValidEntryNoStrip(entry_data) ==
    coin_symbol \in DOMAIN entry_data /\ entry_data[coin_symbol] # <<>>

\* line 840: 'coin_symbol' in entry_data and entry_data['coin_symbol'].strip()
ValidEntry(entry_data) ==
    coin_symbol \in DOMAIN entry_data /\ Strip(entry_data[coin_symbol]) # <<>>

\* mutant of StageForm: the record is put in front of the list
StageFormPrepending(W, ev) ==
    IF ev.t = "submit"
    THEN LET entry_data == EntryData(W, ev)
         IN  IF ValidEntry(entry_data)
             THEN [save_client_data([W EXCEPT !.le = <<Put(entry_data, timestamp, ev.now)>> \o @])
                       EXCEPT !.note = "logged_entry"]
             ELSE [W EXCEPT !.note = "coin_symbol_required"]
    ELSE W

\* lines 838-857: the form's submit button
StageForm(W, ev) ==
    IF ev.t = "submit"
    THEN LET entry_data == EntryData(W, ev)
         IN  IF ValidEntry(entry_data)
             THEN [save_client_data([W EXCEPT !.le = Append(@, Put(entry_data, timestamp, ev.now))])
                       EXCEPT !.note = "logged_entry"]
             ELSE [W EXCEPT !.note = "coin_symbol_required"]
    ELSE W

\* log_entries[-3:]
RecentEntries(le) == SubSeq(le, IF Len(le) > 3 THEN Len(le) - 2 ELSE 1, Len(le))

\* mutant of StageRecent: every entry equal to the chosen one is removed
StageRecentByValue(W, ev) ==
    IF W.le # <<>> /\ ev.t = "delete_recent"
    THEN LET entry == RecentEntries(W.le)[ev.i]
         IN  [W EXCEPT !.le = SelectSeq(@, LAMBDA e : e # entry),
                       !.stop = "rerun", !.note = "deleted_entry"]
    ELSE W

\* lines 919-925: a delete button of "Recent Entries"; the entry is found by list.index
StageRecent(W, ev) ==
    IF W.le # <<>> /\ ev.t = "delete_recent"
    THEN LET entry        == RecentEntries(W.le)[ev.i]
             actual_index == IndexOf(W.le, entry)
         IN  [save_client_data([W EXCEPT !.le = RemoveAt(@, actual_index)])
                  EXCEPT !.stop = "rerun", !.note = "deleted_entry"]
    ELSE W

\* lines 1030-1036: the selectbox of row i
EditResult(W, i, ev, keyid) ==
    IF ev.t = "edit_result" /\ ev.i = i THEN ev.result
    ELSE KeyedWidget(W.ew, i, Get(W.le[i], trade_result, "Pending"), keyid)

\* lines 1037-1040: entry['trade_result'] = new_result when it differs from entry.get('trade_result')
SyncResult(entry, new_result) ==
    IF trade_result \notin DOMAIN entry \/ entry[trade_result] # new_result
    THEN Put(entry, trade_result, new_result)
    ELSE entry

\* mutant of StageTable: "Clear All Logs" calls clear_all_data
StageTableClearingAll(W, ev, keyid) ==
    IF W.le = <<>> THEN W
    ELSE LET rows == IF ev.t = "delete_inline" THEN 1..ev.i ELSE 1..Len(W.le)
             res  == [i \in rows |-> EditResult(W, i, ev, keyid)]
             le1  == [i \in 1..Len(W.le) |->
                         IF i \in rows THEN SyncResult(W.le[i], res[i]) ELSE W.le[i]]
             ew1  == [i \in (DOMAIN W.ew) \cup rows |-> IF i \in rows THEN res[i] ELSE W.ew[i]]
             note == IF ev.t = "edit_result" /\ le1 # W.le THEN "updated_result" ELSE W.note
             W1   == [W EXCEPT !.le = le1, !.ew = ew1, !.rows = rows, !.note = note]
         IN  IF ev.t = "delete_inline"
             THEN [save_client_data([W1 EXCEPT !.le = RemoveAt(@, ev.i)])
                       EXCEPT !.stop = "rerun", !.note = "deleted_entry"]
             ELSE IF ev.t = "clear_all_logs"
             THEN [save_client_data(clear_all_data(W1)) EXCEPT !.stop = "rerun"]
             ELSE W1

\* lines 991-1059 and 1086-1090: the table rows up to the pressed delete button,
\* then "Clear All Logs"
StageTable(W, ev, keyid) ==
    IF W.le = <<>> THEN W
    ELSE LET rows == IF ev.t = "delete_inline" THEN 1..ev.i ELSE 1..Len(W.le)
             res  == [i \in rows |-> EditResult(W, i, ev, keyid)]
             le1  == [i \in 1..Len(W.le) |->
                         IF i \in rows THEN SyncResult(W.le[i], res[i]) ELSE W.le[i]]
             ew1  == [i \in (DOMAIN W.ew) \cup rows |-> IF i \in rows THEN res[i] ELSE W.ew[i]]
             note == IF ev.t = "edit_result" /\ le1 # W.le THEN "updated_result" ELSE W.note
             W1   == [W EXCEPT !.le = le1, !.ew = ew1, !.rows = rows, !.note = note]
         IN  IF ev.t = "delete_inline"
             THEN [save_client_data([W1 EXCEPT !.le = RemoveAt(@, ev.i)])
                       EXCEPT !.stop = "rerun", !.note = "deleted_entry"]
             ELSE IF ev.t = "clear_all_logs"
             THEN [save_client_data([W1 EXCEPT !.le = <<>>]) EXCEPT !.stop = "rerun"]
             ELSE W1

\* a run that reaches the end of the script (or returns from main) drops the state of
\* the widgets it did not build; a run ended by st.rerun() keeps all widget state
Finish(W) ==
    IF W.stop = "rerun" THEN W
    ELSE [W EXCEPT !.tw = [k \in (DOMAIN @) \cap DOMAIN W.sel |-> @[k]],
                   !.ew = [i \in (DOMAIN @) \cap W.rows |-> @[i]],
                   !.up = IF W.ss THEN @ ELSE "None"]

\* main(), top to bottom, for the event ev: each stage works on the value the stage
\* before it produced, and a stage is skipped once the run has stopped.  The result is
\* the one element of the set (a run is deterministic once ev and keyid are fixed).
Run(S, ev, keyid) ==
    { Finish(g) :
      g \in { IF f.stop = "no" THEN StageTable(f, ev, keyid) ELSE f :
      f \in { IF e.stop = "no" THEN StageRecent(e, ev) ELSE e :
      e \in { IF d.stop = "no" THEN StageForm(d, ev) ELSE d :
      d \in { IF c.stop = "no" THEN StageGuard(c) ELSE c :
      c \in { IF b.stop = "no" THEN StageCustomToggles(b, ev, keyid) ELSE b :
      b \in { IF a.stop = "no" THEN StageAddField(a, ev) ELSE a :
      a \in { IF r.stop = "no" THEN StageBuiltInToggles(r, ev, keyid) ELSE r :
      r \in { IF s.stop = "no" THEN StageReorder(s, ev) ELSE s :
      s \in { StageSettings(Start(S), ev) } } } } } } } } } }

---------------------------------------------------------------------------
(* Actions: one script run per user event *)

\* lines 28-42: the session state of a session that has just started
FreshSession ==
    [le |-> <<>>, cf |-> EmptyDict, fo |-> get_default_field_order, ft |-> EmptyDict,
     th |-> DefaultTheme, ss |-> FALSE, tw |-> EmptyDict, ew |-> EmptyDict, up |-> "None"]

\* the field keys whose checkboxes are on the page
PageKeys ==
    (Range(field_order.built_in) \cap BuiltInKeys)
    \cup (IF DOMAIN custom_fields = {} THEN {}
          ELSE Range(field_order.custom) \cap DOMAIN custom_fields)

\* the form is on the page: some field is selected
FormVisible == {k \in PageKeys : Get(field_toggles, k, TRUE)} # {}

\* the "Recent Entries" list and the entries table are on the page
TableVisible == FormVisible /\ log_entries # <<>>

\* the value the user leaves or enters in the form widget of a custom field, by kind
CustomInput ==
    [ty \in FIELD_TYPES |->
        CASE ty = "text_input"   -> "High"
          [] ty = "number_input" -> "0"
          [] ty = "text_area"    -> ""
          [] ty = "selectbox"    -> "Option 1"
          [] ty = "slider"       -> "50"
          [] ty = "date_input"   -> "today"
          [] ty = "checkbox"     -> "False"]

\* what last_event records of the event that triggered the run: its kind, the field key
\* it is about, the row it is about, the coin symbol typed, the field name and kind
\* entered, what field_toggles and
\* custom_fields held for that key before a registration (before "Clear All Data":
\* whether entries, registry, built-in order, colours and background all differed from
\* their initial values), and the message the run showed
EventKey(ev) ==
    IF ev.t \in {"toggle", "delete_field", "move_up", "move_down"} THEN ev.k
    ELSE IF ev.t = "add_field" THEN custom_field_key(ev.name)
    ELSE <<>>

EventRow(ev) == IF ev.t \in {"delete_inline", "delete_recent", "edit_result"} THEN ev.i ELSE 0

EventCoin(ev) == IF ev.t = "submit" THEN ev.coin ELSE <<>>

EventName(ev) == IF ev.t = "add_field" THEN ev.name ELSE <<>>

EventKind(ev) == IF ev.t = "add_field" THEN ev.type ELSE "none"

Before(S, ev) ==
    IF ev.t = "add_field"
    THEN (IF EventKey(ev) \in DOMAIN S.cf THEN "registered" ELSE "unregistered")
         \o (IF EventKey(ev) \notin DOMAIN S.ft THEN "_absent"
             ELSE IF S.ft[EventKey(ev)] THEN "_on" ELSE "_off")
    ELSE IF ev.t = "clear_all_data"
    THEN (IF /\ S.le # <<>>
             /\ S.cf # EmptyDict
             /\ S.fo.built_in # get_default_field_order.built_in
             /\ S.th.background_color # DefaultTheme.background_color
             /\ S.th.custom_background # DefaultTheme.custom_background
          THEN "all_changed" ELSE "some_unchanged")
    ELSE "none"

Commit(S, R, ev) ==
    /\ log_entries' = R.le
    /\ custom_fields' = R.cf
    /\ field_order' = R.fo
    /\ field_toggles' = R.ft
    /\ theme_settings' = R.th
    /\ show_settings' = R.ss
    /\ toggle_widget' = R.tw
    /\ edit_widget' = R.ew
    /\ uploader_widget' = R.up
    /\ rerun_requested' = (R.stop = "rerun")
    /\ last_event' = [t |-> ev.t, k |-> EventKey(ev), i |-> EventRow(ev),
                      coin |-> EventCoin(ev), name |-> EventName(ev),
                      kind |-> EventKind(ev), before |-> Before(S, ev), note |-> R.note]

\* Between runs that ran to their end every keyed widget holds the value its next call
\* passes as default (StableWidgets below), so the run of a user event does not depend
\* on how the framework identifies widgets; only Rerun, which follows a handler that
\* changed the data behind the widgets, does.
Step(ev) ==
    /\ ~rerun_requested
    /\ \E R \in Run(Session, ev, TRUE) : Commit(Session, R, ev)

Init ==
    \E R \in Run(load_client_data(FreshSession), [t |-> "startup"], TRUE) :
        /\ log_entries = R.le
        /\ custom_fields = R.cf
        /\ field_order = R.fo
        /\ field_toggles = R.ft
        /\ theme_settings = R.th
        /\ show_settings = R.ss
        /\ toggle_widget = R.tw
        /\ edit_widget = R.ew
        /\ uploader_widget = R.up
        /\ rerun_requested = FALSE
        /\ last_event = [t |-> "startup", k |-> <<>>, i |-> 0, coin |-> <<>>,
                         name |-> <<>>, kind |-> "none",
                         before |-> "none", note |-> "none"]

\* a new session: session state starts empty again and load_client_data runs
NewSession ==
    /\ ~rerun_requested
    /\ \E R \in Run(load_client_data(FreshSession), [t |-> "startup"], TRUE) :
          Commit(Session, R, [t |-> "startup"])

ToggleSettings == Step([t |-> "settings"])

DarkMode == show_settings /\ Step([t |-> "dark_mode"])

LightMode == show_settings /\ Step([t |-> "light_mode"])

UploadBackground == show_settings /\ uploader_widget = "None" /\ Step([t |-> "upload"])

RemoveBackground == show_settings /\ Step([t |-> "remove_background"])

ClearAllData == show_settings /\ Step([t |-> "clear_all_data"])

MoveFieldUp(k, list) ==
    /\ k \in Range(field_order[list])
    /\ IF list = "built_in" THEN k \in BuiltInKeys /\ IndexOf(field_order[list], k) <= MaxRow
                            ELSE k \in DOMAIN custom_fields
    /\ Step([t |-> "move_up", k |-> k, list |-> list])

MoveFieldDown(k, list) ==
    /\ k \in Range(field_order[list])
    /\ IF list = "built_in" THEN k \in BuiltInKeys /\ IndexOf(field_order[list], k) <= MaxRow
                            ELSE k \in DOMAIN custom_fields
    /\ Step([t |-> "move_down", k |-> k, list |-> list])

ToggleField(k) ==
    /\ k \in PageKeys
    /\ k \in BuiltInKeys => k \in ToggleKeys
    /\ Step([t |-> "toggle", k |-> k, b |-> ~Get(toggle_widget, k, TRUE)])

\* the user unchecks the built-in checkboxes from the top of the sidebar downwards:
\* the checkbox of k is unchecked once every built-in checkbox above it is
SwitchOff(k) ==
    /\ k \in PageKeys \cap BuiltInKeys
    /\ Get(toggle_widget, k, TRUE)
    /\ \A j \in 1..(IndexOf(field_order.built_in, k) - 1) :
           ~Get(field_toggles, field_order.built_in[j], TRUE)
    /\ Step([t |-> "toggle", k |-> k, b |-> FALSE])

AddField(name, type) == Step([t |-> "add_field", name |-> name, type |-> type])

DeleteField(k) ==
    /\ k \in PageKeys \ BuiltInKeys
    /\ Step([t |-> "delete_field", k |-> k])

\* a widget that is not on the form takes no input
Submit(coin, result, now, max) ==
    /\ FormVisible
    /\ Len(log_entries) < max
    /\ ~Get(field_toggles, coin_symbol, TRUE) => coin = <<>>
    /\ ~Get(field_toggles, trade_result, TRUE) => result = TradeResults[1]
    /\ Step([t |-> "submit", coin |-> coin, result |-> result, now |-> now,
             custom |-> CustomInput])

DeleteRecent(i) ==
    /\ TableVisible
    /\ i \in 1..Len(RecentEntries(log_entries))
    /\ Step([t |-> "delete_recent", i |-> i])

EditTradeResult(i, result) ==
    /\ TableVisible
    /\ i \in 1..Len(log_entries)
    /\ result # Get(edit_widget, i, "Pending")
    /\ Step([t |-> "edit_result", i |-> i, result |-> result])

DeleteInline(i) ==
    /\ TableVisible
    /\ i \in 1..Len(log_entries)
    /\ Step([t |-> "delete_inline", i |-> i])

ClearAllLogs == TableVisible /\ Step([t |-> "clear_all_logs"])

\* the run requested by st.rerun()
Rerun ==
    /\ rerun_requested
    /\ \E keyid \in BOOLEAN : \E R \in Run(Session, [t |-> "rerun"], keyid) :
          Commit(Session, R, [t |-> "rerun"])

\* every keyed widget on the page holds the value its next call passes as default
StableWidgets ==
    ~rerun_requested =>
        /\ \A k \in DOMAIN toggle_widget : toggle_widget[k] = Get(field_toggles, k, TRUE)
        /\ \A i \in DOMAIN edit_widget :
               i \in 1..Len(log_entries)
               /\ edit_widget[i] = Get(log_entries[i], trade_result, "Pending")

\* the journal: field registry, visibility, entries and sessions, with the field
\* order left as it is
Next ==
    \/ \E k \in PageKeys : ToggleField(k)
    \/ \E name \in FieldNameInputs, type \in {"selectbox"} : AddField(name, type)
    \/ \E k \in DOMAIN custom_fields : DeleteField(k)
    \/ \E coin \in CoinInputs, result \in Range(TradeResults) :
          Submit(coin, result, 1, MaxStored)
    \/ \E i \in 1..3 : DeleteRecent(i)
    \/ \E i \in 1..Len(log_entries), result \in Range(TradeResults) : EditTradeResult(i, result)
    \/ \E i \in 1..Len(log_entries) : DeleteInline(i)
    \/ ClearAllLogs
    \/ Rerun
    \/ NewSession

Spec == Init /\ [][Next]_vars

\* the entry store alone: no custom field is registered and no field is reordered
NextEntries ==
    \/ \E k \in ToggleKeys : ToggleField(k)
    \/ \E coin \in CoinInputs, result \in Range(TradeResults), now \in 1..MaxTime :
          Submit(coin, result, now, MaxEntries)
    \/ \E i \in 1..3 : DeleteRecent(i)
    \/ \E i \in 1..Len(log_entries), result \in Range(TradeResults) : EditTradeResult(i, result)
    \/ \E i \in 1..Len(log_entries) : DeleteInline(i)
    \/ ClearAllLogs
    \/ Rerun
    \/ NewSession

SpecEntries == Init /\ [][NextEntries]_vars

\* the field registry alone, with "Clear All Data": nothing is submitted
NextFields ==
    \/ \E list \in {"built_in", "custom"} :
          \E k \in Range(field_order[list]) : MoveFieldUp(k, list)
    \/ \E list \in {"built_in", "custom"} :
          \E k \in Range(field_order[list]) : MoveFieldDown(k, list)
    \/ \E k \in PageKeys \ BuiltInKeys : ToggleField(k)
    \/ \E name \in FieldNameInputs \cup MoreFieldNameInputs, type \in FieldTypeInputs :
          AddField(name, type)
    \/ \E k \in DOMAIN custom_fields : DeleteField(k)
    \/ ToggleSettings
    \/ ClearAllData
    \/ Rerun

SpecFields == Init /\ [][NextFields]_vars

\* the entry list alone, with entries told apart by their timestamps: every field stays
\* enabled, the form's trade result is left at "Pending"
NextLog ==
    \/ \E coin \in CoinInputs, now \in 1..MaxClock :
          Submit(coin, TradeResults[1], now, MaxListed)
    \/ \E i \in 1..3 : DeleteRecent(i)
    \/ \E i \in 1..Len(log_entries), result \in EditInputs : EditTradeResult(i, result)
    \/ \E i \in 1..Len(log_entries) : DeleteInline(i)
    \/ ClearAllLogs
    \/ Rerun

SpecLog == Init /\ [][NextLog]_vars

\* the settings panel, with a registry, an order, a theme and entries to clear
NextSettings ==
    \/ ToggleSettings
    \/ DarkMode
    \/ LightMode
    \/ UploadBackground
    \/ RemoveBackground
    \/ ClearAllData
    \/ \E k \in Range(field_order.built_in) : MoveFieldDown(k, "built_in")
    \/ \E name \in SettingsFieldNameInputs, type \in {"selectbox"} : AddField(name, type)
    \/ \E coin \in CoinInputs : Submit(coin, TradeResults[1], 1, MaxStored)
    \/ ClearAllLogs
    \/ Rerun

SpecSettings == Init /\ [][NextSettings]_vars

\* both order lists with a registry, visibility and a stored entry around them
NextOrder ==
    \/ \E list \in {"built_in", "custom"} :
          \E k \in Range(field_order[list]) : MoveFieldUp(k, list)
    \/ \E list \in {"built_in", "custom"} :
          \E k \in Range(field_order[list]) : MoveFieldDown(k, list)
    \/ \E k \in PageKeys \ BuiltInKeys : ToggleField(k)
    \/ \E name \in SettingsFieldNameInputs \cup MoreFieldNameInputs, type \in {"selectbox"} :
          AddField(name, type)
    \/ \E k \in DOMAIN custom_fields : DeleteField(k)
    \/ \E coin \in CoinInputs : Submit(coin, TradeResults[1], 1, MaxStored)
    \/ ToggleSettings
    \/ ClearAllData
    \/ Rerun

SpecOrder == Init /\ [][NextOrder]_vars

\* the page with every field switched off: the built-in checkboxes are unchecked one
\* after the other, a custom field is registered, switched off or deleted, and entries
\* are there to submit, edit, delete and clear
NextGuard ==
    \/ \E k \in Range(field_order.built_in) : SwitchOff(k)
    \/ \E k \in PageKeys \ BuiltInKeys : ToggleField(k)
    \/ \E name \in SettingsFieldNameInputs, type \in {"selectbox"} : AddField(name, type)
    \/ \E k \in DOMAIN custom_fields : DeleteField(k)
    \/ \E coin \in CoinInputs : Submit(coin, TradeResults[1], 1, MaxStored)
    \/ \E i \in 1..Len(log_entries), result \in EditInputs : EditTradeResult(i, result)
    \/ \E i \in 1..Len(log_entries) : DeleteInline(i)
    \/ ClearAllLogs
    \/ ToggleSettings
    \/ ClearAllData
    \/ Rerun

SpecGuard == Init /\ [][NextGuard]_vars

---------------------------------------------------------------------------
(* Claims *)

\* new is old with the element at position j removed and every other element kept in place
RemovesOne(old, new, j) ==
    /\ Len(new) = Len(old) - 1
    /\ \A m \in 1..Len(new) : new[m] = IF m < j THEN old[m] ELSE old[m + 1]

AllWhitespace(s) == \A c \in 1..Len(s) : s[c] \in Whitespace

\* C1: a delete button, of table row i or of "Recent Entries", removes exactly one
\* element of log_entries: the length drops by one and the remaining entries keep their
\* order; the table's button of row i removes the element of row i.
C1_DeleteRemovesOneEntry ==
    [][ last_event'.t \in {"delete_inline", "delete_recent"} =>
          /\ \E j \in 1..Len(log_entries) : RemovesOne(log_entries, log_entries', j)
          /\ last_event'.t = "delete_inline" =>
                 RemovesOne(log_entries, log_entries', last_event'.i) ]_vars

\* C1 witness: the middle one of three entries has just been deleted in the table, and
\* the two that remain differ
C1_Witness ==
    /\ last_event.t = "delete_inline"
    /\ last_event.i = 2
    /\ Len(log_entries) = 2
    /\ log_entries[1] # log_entries[2]

\* C2: a submission whose coin symbol is empty or whitespace only, or is absent because
\* the coin_symbol field is disabled, is rejected: log_entries is left as it was.
C2_InvalidCoinRejected ==
    [][ ( /\ last_event'.t = "submit"
          /\ AllWhitespace(last_event'.coin) \/ ~field_toggles[coin_symbol] )
        => log_entries' = log_entries /\ last_event'.note = "coin_symbol_required" ]_vars

\* C2 witness: a submission has just been rejected while coin_symbol is disabled and an
\* entry is stored
C2_Witness ==
    /\ last_event.t = "submit"
    /\ last_event.note = "coin_symbol_required"
    /\ ~field_toggles[coin_symbol]
    /\ Len(log_entries) > 0

\* C3 (as stated): for every key of a field-order list, at every position, moving it up
\* then down, or down then up, restores the list.
C3_UpDownRestoresEverywhere ==
    \A list \in {"built_in", "custom"} : \A k \in Range(field_order[list]) :
        /\ move_field_down(move_field_up(field_order[list], k), k) = field_order[list]
        /\ move_field_up(move_field_down(field_order[list], k), k) = field_order[list]

\* C3 (amended): up then down restores the list for every key that is not first, and
\* down then up restores it for every key that is not last; for the first key up then
\* down, and for the last key down then up, exchanges it with its neighbour.
C3_UpDownRestoresAwayFromEnds ==
    \A list \in {"built_in", "custom"} : \A k \in Range(field_order[list]) :
        LET l == field_order[list]
            p == IndexOf(l, k)
        IN  /\ p > 1 => move_field_down(move_field_up(l, k), k) = l
            /\ p < Len(l) => move_field_up(move_field_down(l, k), k) = l
            /\ (p = 1 /\ Len(l) > 1) => move_field_down(move_field_up(l, k), k) = Swap(l, 1, 2)
            /\ (p = Len(l) /\ Len(l) > 1) =>
                   move_field_up(move_field_down(l, k), k) = Swap(l, Len(l) - 1, Len(l))

\* C3 witness: a reorder button has just been pressed, the built-in list is no longer
\* in its default order and the custom list holds two keys
C3_Witness ==
    /\ last_event.t \in {"move_up", "move_down"}
    /\ field_order.built_in # get_default_field_order.built_in
    /\ Len(field_order.custom) = 2

\* C4: toggling a field's visibility, off or on, built-in or custom, changes no stored
\* entry (and neither the registry nor the field order).
C4_ToggleKeepsEntries ==
    [][ last_event'.t = "toggle" =>
          /\ log_entries' = log_entries
          /\ custom_fields' = custom_fields
          /\ field_order' = field_order ]_vars

\* C4 witness: a custom field that a stored entry has a value for has just been toggled
\* on again (a toggle flips the checkbox, and every checkbox starts checked)
C4_Witness ==
    /\ last_event.t = "toggle"
    /\ last_event.k \notin BuiltInKeys
    /\ field_toggles[last_event.k]
    /\ Len(log_entries) > 0
    /\ last_event.k \in DOMAIN log_entries[1]

\* every value stored under a custom key is the value the form submitted for it
C5_ValuesAsSubmitted ==
    \A i \in 1..Len(log_entries) :
        \A k \in (DOMAIN log_entries[i]) \ (BuiltInKeys \cup {timestamp}) :
            log_entries[i][k] = CustomInput["selectbox"]

\* C5: deleting a custom field removes its key from custom_fields and from
\* field_order['custom'] and leaves every stored entry as it was, so an entry submitted
\* with the field enabled keeps the key with the value it was submitted with.
C5_DeleteFieldOrphansValues ==
    /\ []C5_ValuesAsSubmitted
    /\ [][ last_event'.t = "delete_field" =>
             /\ last_event'.k \notin DOMAIN custom_fields'
             /\ last_event'.k \notin Range(field_order'.custom)
             /\ log_entries' = log_entries ]_vars

\* C5 witness: a custom field has just been deleted and the stored entry still holds
\* its key and value
C5_Witness ==
    /\ last_event.t = "delete_field"
    /\ last_event.k \notin DOMAIN custom_fields
    /\ Len(log_entries) = 1
    /\ last_event.k \in DOMAIN log_entries[1]
    /\ log_entries[1][last_event.k] = "Option 1"

\* C6: every key of field_toggles is a built-in key or a registered custom key.
C6_TogglesOnlyKnownKeys ==
    DOMAIN field_toggles \subseteq BuiltInKeys \cup DOMAIN custom_fields

\* C7: the entries logged in a session are there again when a new session starts.
C7_EntriesSurviveNewSession ==
    [][ last_event'.t = "startup" => log_entries' = log_entries ]_vars

\* C8: the key of every registered custom field is "custom_" followed by its label with
\* upper-case letters lowered and spaces replaced by underscores, and no label typed
\* derives a built-in key.
C8_CustomKeyDerivation ==
    /\ \A k \in DOMAIN custom_fields :
          LET name == custom_fields[k].label
          IN  /\ Len(k) = 7 + Len(name)
              /\ SubSeq(k, 1, 7) = <<"c", "u", "s", "t", "o", "m", "_">>
              /\ \A i \in 1..Len(name) :
                     k[7 + i] = IF name[i] = " " THEN "_" ELSE LowerChar(name[i])
              /\ k \notin BuiltInKeys
    /\ \A name \in FieldNameInputs \cup MoreFieldNameInputs :
          custom_field_key(name) \notin BuiltInKeys

\* C8 witness: the label "Coin Symbol" has just been registered, under custom_coin_symbol
C8_Witness ==
    /\ last_event.t = "add_field"
    /\ last_event.k = <<"c", "u", "s", "t", "o", "m", "_", "c", "o", "i", "n", "_", "s", "y", "m", "b", "o", "l">>
    /\ last_event.k \in DOMAIN custom_fields
    /\ custom_fields[last_event.k].label = <<"C", "o", "i", "n", " ", "S", "y", "m", "b", "o", "l">>

\* C9: registering a label whose key is already registered overwrites silently: the
\* registry keeps its keys, the key's descriptor is the one registered last, and the key
\* stays once in field_order['custom'], where it was.
C9_CollisionOverwrites ==
    [][ ( /\ last_event'.t = "add_field"
          /\ ~AllWhitespace(last_event'.name)
          /\ custom_field_key(last_event'.name) \in DOMAIN custom_fields )
        => LET k == custom_field_key(last_event'.name)
           IN  /\ DOMAIN custom_fields' = DOMAIN custom_fields
               /\ custom_fields'[k].label = last_event'.name
               /\ custom_fields'[k].type = last_event'.kind
               /\ \A x \in (DOMAIN custom_fields) \ {k} : custom_fields'[x] = custom_fields[x]
               /\ field_order'.custom = field_order.custom
               /\ Cardinality({j \in 1..Len(field_order'.custom) :
                                   field_order'.custom[j] = k}) = 1 ]_vars

\* C9 witness: "risk level" has just been registered over an already registered
\* custom_risk_level, which is still first of two keys in the custom order
C9_Witness ==
    /\ last_event.t = "add_field"
    /\ last_event.before \in {"registered_on", "registered_off"}
    /\ custom_fields[last_event.k].label = <<"r", "i", "s", "k", " ", "l", "e", "v", "e", "l">>
    /\ Len(field_order.custom) = 2
    /\ field_order.custom[1] = last_event.k

C11_StoredKeysUnchanged ==
    [][ ( \/ last_event'.t \in {"toggle", "add_field", "delete_field"}
          \/ last_event'.t = "rerun" /\ last_event.t \in {"add_field", "delete_field"} )
        => /\ Len(log_entries') = Len(log_entries)
           /\ \A i \in 1..Len(log_entries) :
                  DOMAIN log_entries'[i] = DOMAIN log_entries[i] ]_vars

\* C11 witness: a custom field has just been registered while a stored entry has no
\* value for it
C11_Witness ==
    /\ last_event.t = "add_field"
    /\ last_event.k \in DOMAIN custom_fields
    /\ Len(log_entries) = 1
    /\ last_event.k \notin DOMAIN log_entries[1]

\* the entry without its trade result
SansResult(entry) == [k \in (DOMAIN entry) \ {trade_result} |-> entry[k]]

\* C12: an accepted submission appends one record at the end of log_entries, the list
\* before it being a prefix of the list after it; and no step reorders the list: a step
\* appends one entry, removes one, empties the list, or keeps every entry in its place
\* (up to its trade result).
C12_AppendKeepsInsertionOrder ==
    [][ /\ (last_event'.t = "submit" /\ last_event'.note = "logged_entry") =>
              /\ Len(log_entries') = Len(log_entries) + 1
              /\ SubSeq(log_entries', 1, Len(log_entries)) = log_entries
              /\ log_entries'[Len(log_entries')][coin_symbol] = last_event'.coin
        /\ \/ /\ last_event'.t = "submit"
              /\ Len(log_entries') = Len(log_entries) + 1
              /\ SubSeq(log_entries', 1, Len(log_entries)) = log_entries
           \/ \E j \in 1..Len(log_entries) : RemovesOne(log_entries, log_entries', j)
           \/ log_entries' = <<>>
           \/ /\ Len(log_entries') = Len(log_entries)
              /\ \A i \in 1..Len(log_entries) :
                     SansResult(log_entries'[i]) = SansResult(log_entries[i]) ]_vars

\* C12 witness: a third entry has just been appended behind two that differ from it
C12_Witness ==
    /\ last_event.t = "submit"
    /\ last_event.note = "logged_entry"
    /\ Len(log_entries) = 3
    /\ log_entries[3] # log_entries[1]
    /\ log_entries[3] # log_entries[2]

C14_ClearAllLogsFrame ==
    [][ last_event'.t = "clear_all_logs" =>
          /\ log_entries' = <<>>
          /\ custom_fields' = custom_fields
          /\ field_order' = field_order
          /\ field_toggles' = field_toggles
          /\ theme_settings' = theme_settings ]_vars

\* C14 (amended): "Clear All Logs" empties log_entries and leaves custom_fields,
\* field_order and field_toggles as they were; theme_settings is left as it was except
\* that, when the settings panel is open and its file uploader holds an image, the run
\* sets custom_background to that image (again, if "Remove Background" had removed it).
C14_ClearAllLogsFrameButBackground ==
    [][ last_event'.t = "clear_all_logs" =>
          /\ log_entries' = <<>>
          /\ custom_fields' = custom_fields
          /\ field_order' = field_order
          /\ field_toggles' = field_toggles
          /\ theme_settings' =
                 IF show_settings /\ uploader_widget # "None"
                 THEN [theme_settings EXCEPT !.custom_background = uploader_widget]
                 ELSE theme_settings ]_vars

\* C14 witness: "Clear All Logs" has just emptied the list while a custom field is
\* registered, the built-in order and the colours are not the initial ones, and the
\* uploader holds an image
C14_Witness ==
    /\ last_event.t = "clear_all_logs"
    /\ log_entries = <<>>
    /\ custom_fields # EmptyDict
    /\ field_order.built_in # get_default_field_order.built_in
    /\ theme_settings.background_color # DefaultTheme.background_color
    /\ uploader_widget = "image"

\* C15: in every state field_order['custom'] holds no key twice and holds exactly the
\* keys of custom_fields.
C15_CustomOrderInSync ==
    /\ \A i, j \in 1..Len(field_order.custom) :
           field_order.custom[i] = field_order.custom[j] => i = j
    /\ Range(field_order.custom) = DOMAIN custom_fields

\* C15 witness: a custom field has just been deleted and the custom order holds the one
\* key that is left, which a colliding registration had overwritten
C15_Witness ==
    /\ last_event.t = "delete_field"
    /\ Len(field_order.custom) = 1
    /\ field_order.custom[1] \in DOMAIN custom_fields
    /\ custom_fields[field_order.custom[1]].label
           = <<"r", "i", "s", "k", " ", "l", "e", "v", "e", "l">>

\* C16: a run in which the user picks no trade result in the table leaves every stored
\* entry as it was: a run that neither adds nor removes an entry leaves log_entries
\* unchanged, and an accepted submission leaves the entries before it unchanged and
\* stores a trade result with the new one only if the trade_result field is enabled.
C16_RenderKeepsEntries ==
    [][ last_event'.t # "edit_result" =>
          /\ Len(log_entries') = Len(log_entries) => log_entries' = log_entries
          /\ (last_event'.t = "submit" /\ last_event'.note = "logged_entry") =>
                 /\ SubSeq(log_entries', 1, Len(log_entries)) = log_entries
                 /\ trade_result \in DOMAIN log_entries'[Len(log_entries')]
                        <=> field_toggles[trade_result] ]_vars

\* C17: the run that follows the deletion of a table row leaves every remaining entry
\* as the deletion left it.
C17_RerunAfterDeleteKeepsEntries ==
    [][ (last_event'.t = "rerun" /\ last_event.t = "delete_inline") =>
            log_entries' = log_entries ]_vars

\* C18: a "Recent Entries" delete of the k-th entry shown yields the list with the
\* element at position n - min(3, n) + k removed, n being the number of entries.
C18_DeleteRecentRemovesShown ==
    [][ last_event'.t = "delete_recent" =>
          LET n == Len(log_entries)
              shown == IF n < 3 THEN n ELSE 3
          IN  log_entries' = RemoveAt(log_entries, n - shown + last_event'.i) ]_vars

\* C19: the record an accepted submission stores has exactly the keys of the fields that
\* are in the field order, registered and enabled when it is submitted, plus timestamp.
C19_RecordKeys ==
    [][ (last_event'.t = "submit" /\ last_event'.note = "logged_entry") =>
          DOMAIN log_entries'[Len(log_entries')] =
              {k \in (Range(field_order.built_in) \cap BuiltInKeys)
                      \cup (Range(field_order.custom) \cap DOMAIN custom_fields) :
                  Get(field_toggles, k, FALSE)}
              \cup {timestamp} ]_vars

\* C20: in every state every stored entry has a coin_symbol key whose value is not
\* empty after strip().
C20_EveryEntryHasCoin ==
    \A i \in 1..Len(log_entries) :
        /\ coin_symbol \in DOMAIN log_entries[i]
        /\ Strip(log_entries[i][coin_symbol]) # <<>>

\* C20 witness: an entry is stored, and its trade result has just been edited while the
\* coin_symbol field is disabled and a custom field is registered
C20_Witness ==
    /\ last_event.t = "edit_result"
    /\ last_event.note = "updated_result"
    /\ Len(log_entries) = 1
    /\ ~field_toggles[coin_symbol]
    /\ custom_fields # EmptyDict

\* the built-in order list holds each of the 15 built-in keys once
BuiltInPermutation ==
    /\ Cardinality(BuiltInKeys) = Len(get_default_field_order.built_in)
    /\ Len(field_order.built_in) = Cardinality(BuiltInKeys)
    /\ Range(field_order.built_in) = BuiltInKeys

\* new is old, or old with two neighbours exchanged
AdjacentSwapOrSame(old, new) ==
    \/ new = old
    \/ \E j \in 1..(Len(old) - 1) : new = Swap(old, j, j + 1)

\* C21: in every state field_order['built_in'] is a permutation of the 15 built-in keys;
\* a reorder button (move_field_up, move_field_down) exchanges at most two neighbours of
\* its own list and leaves the other list, custom_fields, field_toggles and log_entries
\* as they were, and so does the run that st.rerun() requests after it.
C21_OrderIsPermutationMovesSwap ==
    /\ []BuiltInPermutation
    /\ [][ last_event'.t \in {"move_up", "move_down"} =>
             LET list  == IF last_event'.k \in BuiltInKeys THEN "built_in" ELSE "custom"
                 other == IF list = "built_in" THEN "custom" ELSE "built_in"
             IN  /\ AdjacentSwapOrSame(field_order[list], field_order'[list])
                 /\ field_order'[other] = field_order[other]
                 /\ custom_fields' = custom_fields
                 /\ field_toggles' = field_toggles
                 /\ log_entries' = log_entries ]_vars
    /\ [][ (last_event'.t = "rerun" /\ last_event.t \in {"move_up", "move_down"}) =>
             /\ field_order' = field_order
             /\ custom_fields' = custom_fields
             /\ field_toggles' = field_toggles
             /\ log_entries' = log_entries ]_vars

\* C21 witness: a built-in key has just been moved down, so the built-in list is out of
\* its default order, while two custom fields are registered, one of them switched off,
\* and an entry is stored
C21_Witness ==
    /\ last_event.t = "move_down"
    /\ last_event.k \in BuiltInKeys
    /\ field_order.built_in # get_default_field_order.built_in
    /\ Len(field_order.custom) = 2
    /\ \E k \in DOMAIN custom_fields : ~field_toggles[k]
    /\ Len(log_entries) = 1

\* the events of the widgets below the guard: the form's submit button, the delete
\* buttons, the trade-result dropdowns and "Clear All Logs"
BelowGuardEvents ==
    {[t |-> "submit", coin |-> coin, result |-> TradeResults[1], now |-> 1,
      custom |-> CustomInput] : coin \in CoinInputs}
    \cup {[t |-> "delete_recent", i |-> i] : i \in 1..Len(RecentEntries(log_entries))}
    \cup {[t |-> "edit_result", i |-> i, result |-> result] :
             i \in 1..Len(log_entries), result \in Range(TradeResults)}
    \cup {[t |-> "delete_inline", i |-> i] : i \in 1..Len(log_entries)}
    \cup {[t |-> "clear_all_logs"]}

\* with no field enabled a run returns from main before the form and the table are
\* built: whichever widget below the guard the event names, no handler is reached
ReturnsAtGuard ==
    (~FormVisible /\ ~rerun_requested) =>
        \A ev \in BelowGuardEvents \cup {NoEvent} : \A keyid \in BOOLEAN :
            \A R \in Run(Session, ev, keyid) :
                /\ R.stop = "return"
                /\ R.rows = {}
                /\ R.le = log_entries

\* C22: when no field is enabled main returns before the entry form and the entries
\* table are built, so no entry is appended, edited or deleted and "Clear All Logs" is
\* not there; a run that starts with no field enabled changes log_entries only if it is
\* the run of "Clear All Data".
C22_NoFieldNoEntryChange ==
    /\ []ReturnsAtGuard
    /\ [][ (~FormVisible /\ log_entries' # log_entries) =>
             last_event'.t = "clear_all_data" ]_vars

\* C22 witness: the last enabled checkbox has just been unchecked while an entry is
\* stored and a custom field is registered, and the run has returned at the guard
C22_Witness ==
    /\ last_event.t = "toggle"
    /\ ~rerun_requested
    /\ ~FormVisible
    /\ Len(log_entries) = 1
    /\ custom_fields # EmptyDict

\* C23: "Add Field" pressed with an empty or whitespace-only field name shows the error
\* "Field name is required!" and registers nothing: custom_fields, field_order and
\* field_toggles are left as they were, and no rerun is requested.
C23_BlankFieldNameRejected ==
    [][ (last_event'.t = "add_field" /\ AllWhitespace(last_event'.name)) =>
          /\ last_event'.note = "field_name_required"
          /\ custom_fields' = custom_fields
          /\ field_order' = field_order
          /\ field_toggles' = field_toggles
          /\ ~rerun_requested' ]_vars

\* C23 witness: a name of one space has just been rejected while two custom fields are
\* registered and one of them is switched off
C23_Witness ==
    /\ last_event.t = "add_field"
    /\ last_event.name = <<" ">>
    /\ last_event.note = "field_name_required"
    /\ Len(field_order.custom) = 2
    /\ \E k \in DOMAIN custom_fields : ~field_toggles[k]

====
